---- MODULE Spec2Model ----
(***************************************************************************)
(* Model of the AI code review bot: the HTTP service (app.py: /analyze and *)
(* /fix) and the local batch runner (.github/scripts/review_pr.py: main).  *)
(* Text is a sequence of one-character strings so that the substring       *)
(* heuristics of the code are computed, not assumed.                       *)
(***************************************************************************)
EXTENDS Integers, Sequences, FiniteSets, TLC

(***************************************************************************)
(* Python str primitives used by the code.  A character is a string of    *)
(* one character; a character that is not printable ASCII, and the         *)
(* backquote, is written U+ followed by its code point in hexadecimal      *)
(* ("U+00A0", "U+0060").                                                    *)
(***************************************************************************)
UpperChars == <<"A","B","C","D","E","F","G","H","I","J","K","L","M","N","O","P","Q","R","S","T","U","V","W","X","Y","Z">>

LowerChars == <<"a","b","c","d","e","f","g","h","i","j","k","l","m","n","o","p","q","r","s","t","u","v","w","x","y","z">>

\* the characters str.strip() removes: those for which str.isspace() holds
Whitespace ==
    {
      "\t", "\n", "U+000B", "\f", "\r", "U+001C", "U+001D", "U+001E",
      "U+001F", " ", "U+0085", "U+00A0", "U+1680", "U+2000", "U+2001", "U+2002",
      "U+2003", "U+2004", "U+2005", "U+2006", "U+2007", "U+2008", "U+2009", "U+200A",
      "U+2028", "U+2029", "U+202F", "U+205F", "U+3000" }

\* str.lower() of the cased letters outside ASCII that the model's
\* alphabet holds (Latin-1 Supplement, Latin Extended-A, and the letterlike
\* signs OHM, KELVIN and ANGSTROM); one of them lowers to two characters
LowerTable ==
    (
      "U+00C0" :> <<"U+00E0">> @@ "U+00C1" :> <<"U+00E1">> @@
      "U+00C2" :> <<"U+00E2">> @@ "U+00C3" :> <<"U+00E3">> @@
      "U+00C4" :> <<"U+00E4">> @@ "U+00C5" :> <<"U+00E5">> @@
      "U+00C6" :> <<"U+00E6">> @@ "U+00C7" :> <<"U+00E7">> @@
      "U+00C8" :> <<"U+00E8">> @@ "U+00C9" :> <<"U+00E9">> @@
      "U+00CA" :> <<"U+00EA">> @@ "U+00CB" :> <<"U+00EB">> @@
      "U+00CC" :> <<"U+00EC">> @@ "U+00CD" :> <<"U+00ED">> @@
      "U+00CE" :> <<"U+00EE">> @@ "U+00CF" :> <<"U+00EF">> @@
      "U+00D0" :> <<"U+00F0">> @@ "U+00D1" :> <<"U+00F1">> @@
      "U+00D2" :> <<"U+00F2">> @@ "U+00D3" :> <<"U+00F3">> @@
      "U+00D4" :> <<"U+00F4">> @@ "U+00D5" :> <<"U+00F5">> @@
      "U+00D6" :> <<"U+00F6">> @@ "U+00D8" :> <<"U+00F8">> @@
      "U+00D9" :> <<"U+00F9">> @@ "U+00DA" :> <<"U+00FA">> @@
      "U+00DB" :> <<"U+00FB">> @@ "U+00DC" :> <<"U+00FC">> @@
      "U+00DD" :> <<"U+00FD">> @@ "U+00DE" :> <<"U+00FE">> @@
      "U+0100" :> <<"U+0101">> @@ "U+0102" :> <<"U+0103">> @@
      "U+0104" :> <<"U+0105">> @@ "U+0106" :> <<"U+0107">> @@
      "U+0108" :> <<"U+0109">> @@ "U+010A" :> <<"U+010B">> @@
      "U+010C" :> <<"U+010D">> @@ "U+010E" :> <<"U+010F">> @@
      "U+0110" :> <<"U+0111">> @@ "U+0112" :> <<"U+0113">> @@
      "U+0114" :> <<"U+0115">> @@ "U+0116" :> <<"U+0117">> @@
      "U+0118" :> <<"U+0119">> @@ "U+011A" :> <<"U+011B">> @@
      "U+011C" :> <<"U+011D">> @@ "U+011E" :> <<"U+011F">> @@
      "U+0120" :> <<"U+0121">> @@ "U+0122" :> <<"U+0123">> @@
      "U+0124" :> <<"U+0125">> @@ "U+0126" :> <<"U+0127">> @@
      "U+0128" :> <<"U+0129">> @@ "U+012A" :> <<"U+012B">> @@
      "U+012C" :> <<"U+012D">> @@ "U+012E" :> <<"U+012F">> @@
      "U+0130" :> <<"i","U+0307">> @@ "U+0132" :> <<"U+0133">> @@
      "U+0134" :> <<"U+0135">> @@ "U+0136" :> <<"U+0137">> @@
      "U+0139" :> <<"U+013A">> @@ "U+013B" :> <<"U+013C">> @@
      "U+013D" :> <<"U+013E">> @@ "U+013F" :> <<"U+0140">> @@
      "U+0141" :> <<"U+0142">> @@ "U+0143" :> <<"U+0144">> @@
      "U+0145" :> <<"U+0146">> @@ "U+0147" :> <<"U+0148">> @@
      "U+014A" :> <<"U+014B">> @@ "U+014C" :> <<"U+014D">> @@
      "U+014E" :> <<"U+014F">> @@ "U+0150" :> <<"U+0151">> @@
      "U+0152" :> <<"U+0153">> @@ "U+0154" :> <<"U+0155">> @@
      "U+0156" :> <<"U+0157">> @@ "U+0158" :> <<"U+0159">> @@
      "U+015A" :> <<"U+015B">> @@ "U+015C" :> <<"U+015D">> @@
      "U+015E" :> <<"U+015F">> @@ "U+0160" :> <<"U+0161">> @@
      "U+0162" :> <<"U+0163">> @@ "U+0164" :> <<"U+0165">> @@
      "U+0166" :> <<"U+0167">> @@ "U+0168" :> <<"U+0169">> @@
      "U+016A" :> <<"U+016B">> @@ "U+016C" :> <<"U+016D">> @@
      "U+016E" :> <<"U+016F">> @@ "U+0170" :> <<"U+0171">> @@
      "U+0172" :> <<"U+0173">> @@ "U+0174" :> <<"U+0175">> @@
      "U+0176" :> <<"U+0177">> @@ "U+0178" :> <<"U+00FF">> @@
      "U+0179" :> <<"U+017A">> @@ "U+017B" :> <<"U+017C">> @@
      "U+017D" :> <<"U+017E">> @@ "U+2126" :> <<"U+03C9">> @@
      "U+212A" :> <<"k">> @@ "U+212B" :> <<"U+00E5">> )

\* str.lower() on one character: a string of one or two characters
LowerChar(c) ==
    IF \E i \in 1..Len(UpperChars) : UpperChars[i] = c
    THEN <<LowerChars[CHOOSE i \in 1..Len(UpperChars) : UpperChars[i] = c]>>
    ELSE IF c \in DOMAIN LowerTable THEN LowerTable[c]
    ELSE <<c>>

\* str.lower()
RECURSIVE Lower(_)
Lower(s) == IF s = <<>> THEN <<>> ELSE LowerChar(Head(s)) \o Lower(Tail(s))

\* str.lstrip()
RECURSIVE LStrip(_)
LStrip(s) ==
    IF s # <<>> /\ Head(s) \in Whitespace THEN LStrip(Tail(s)) ELSE s

\* str.rstrip()
RECURSIVE RStrip(_)
RStrip(s) ==
    IF s # <<>> /\ s[Len(s)] \in Whitespace
    THEN RStrip(SubSeq(s, 1, Len(s) - 1))
    ELSE s

\* str.strip()
Strip(s) == RStrip(LStrip(s))

\* sub in s
Contains(s, sub) ==
    \E i \in 0..(Len(s) - Len(sub)) : SubSeq(s, i + 1, i + Len(sub)) = sub

\* s.startswith(p)
StartsWith(s, p) == Len(s) >= Len(p) /\ SubSeq(s, 1, Len(p)) = p

\* s.split(sep) for a non-empty separator: the list of parts
RECURSIVE SplitFrom(_, _, _)
SplitFrom(s, sep, cur) ==
    IF s = <<>> THEN <<cur>>
    ELSE IF StartsWith(s, sep)
         THEN <<cur>> \o SplitFrom(SubSeq(s, Len(sep) + 1, Len(s)), sep, <<>>)
         ELSE SplitFrom(Tail(s), sep, Append(cur, Head(s)))

Split(s, sep) == SplitFrom(s, sep, <<>>)

\* sep.join(parts)
RECURSIVE Join(_, _)
Join(parts, sep) ==
    IF parts = <<>> THEN <<>>
    ELSE IF Len(parts) = 1 THEN parts[1]
    ELSE parts[1] \o sep \o Join(Tail(parts), sep)

\* any(indicator in code for indicator in indicators)
AnyIn(indicators, s) == \E k \in 1..Len(indicators) : Contains(s, indicators[k])

(***************************************************************************)
(* Language Detector (app.py).                                             *)
(***************************************************************************)
python_indicators ==
    << <<"d","e","f"," ">>, <<"i","m","p","o","r","t"," ">>, <<"f","r","o","m"," ">>, <<"c","l","a","s","s"," ">>,
       <<"i","f"," ","_","_","n","a","m","e","_","_"," ","=","=">>, <<"p","r","i","n","t","(">> >>

c_indicators ==
    << <<"#","i","n","c","l","u","d","e">>, <<"i","n","t"," ","m","a","i","n","(">>, <<"p","r","i","n","t","f","(">>, <<"s","c","a","n","f","(">>,
       <<"s","t","d",":",":">>, <<"c","o","u","t","<","<">>, <<"c","i","n",">",">">> >>

js_indicators ==
    << <<"f","u","n","c","t","i","o","n"," ">>, <<"c","o","n","s","t"," ">>, <<"l","e","t"," ">>, <<"v","a","r"," ">>,
       <<"c","o","n","s","o","l","e",".","l","o","g","(">>, <<"d","o","c","u","m","e","n","t",".">>, <<"=",">">> >>

java_indicators ==
    << <<"p","u","b","l","i","c"," ","c","l","a","s","s">>, <<"p","u","b","l","i","c"," ","s","t","a","t","i","c"," ","v","o","i","d"," ","m","a","i","n">>,
       <<"s","y","s","t","e","m",".","o","u","t",".","p","r","i","n","t","l","n">>, <<"i","m","p","o","r","t"," ","j","a","v","a",".">> >>

detect_language_from_code(code) ==
    LET code_lower == Strip(Lower(code)) IN
    IF AnyIn(python_indicators, code_lower) THEN "python"
    ELSE IF AnyIn(c_indicators, code_lower)
    THEN (IF Contains(code_lower, <<".","h">>) \/ Contains(code_lower, <<"m","a","l","l","o","c","(">>)
          THEN "c" ELSE "cpp")
    ELSE IF AnyIn(js_indicators, code_lower) THEN "javascript"
    ELSE IF AnyIn(java_indicators, code_lower) THEN "java"
    ELSE "unknown"

(***************************************************************************)
(* Inputs.  Snippets are the request bodies' code; Languages the declared  *)
(* language tags ("ruby" stands for any tag the service has no branch for).*)
(* U+D800 is a lone surrogate: a str that JSON can carry and that the      *)
(* UTF-8 encoder of a text file refuses; U+00A0 and U+000B are whitespace  *)
(* to str.strip(); U+0130 lowers to two characters.                        *)
(***************************************************************************)
Snippets ==
    { <<>>,
      <<" "," ","\n">>,
      <<"x"," ","="," ","1">>,
      <<"d","e","f"," ","f","o","o","(",")",":","\n"," "," "," "," ","r","e","t","u","r","n"," ","1">>,
      <<"f","u","n","c","t","i","o","n"," ","f","o","o","(",")"," ","{"," ","r","e","t","u","r","n"," ","1",";"," ","}">>,
      <<"p","u","b","l","i","c"," ","c","l","a","s","s"," ","M","a","i","n"," ","{","}">>,
      <<"i","m","p","o","r","t"," ","j","a","v","a",".","u","t","i","l",".","L","i","s","t",";">>,
      <<"S","y","s","t","e","m",".","o","u","t",".","p","r","i","n","t","l","n","(","1",")",";">>,
      <<"p","u","b","l","i","c"," ","s","t","a","t","i","c"," ","v","o","i","d"," ","m","a","i","n","(","S","t","r","i","n","g","[","]"," ","a",")"," ","{","}">>,
      <<"p","u","b","l","i","c"," ","c","l","a","s","s">>,
      <<"#","i","n","c","l","u","d","e"," ","<","s","t","d","i","o",".","h",">">>,
      <<"i","n","t"," ","m","a","i","n","(",")"," ","{"," ","r","e","t","u","r","n"," ","0",";"," ","}">>,
      <<"v","a","r"," ","x"," ","="," ","1",";">>,
      <<"x"," ","="," ","'","U+D800","'">>,
      <<"U+00A0","U+000B">>,
      <<"d","e","f"," ","U+000B">>,
      <<"U+0130","M","P","O","R","T"," ","o","s">> }

Languages == {"python", "javascript", "java", "c", "cpp", "ruby"}

\* text of the pylint TextReporter for the temp file
PylintOutputs ==
    { <<>>,
      <<"*","*","*","*","*","*","*","*","*","*","*","*","*"," ","M","o","d","u","l","e"," ","t","\n","t",".","p","y",":","1",":","0",":"," ","C","0","1","1","4",":"," ","m","\n">>,
      <<"*","*","*","*","*","*","*","*","*","*","*","*","*"," ","M","o","d","u","l","e"," ","t","\n","t",".","p","y",":","1",":","0",":"," ","C","0","1","1","4",":"," ","m","\n","t",".","p","y",":","2",":","0",":"," ","W","0","6","1","1",":"," ","u","\n">>,
      <<"\n","-","-","-","-","-","\n","r","a","t","e","d"," ","0","/","1","0","\n","a",":","b","\n","t",".","p","y",":","1",":"," ","\n">> }

\* stdout of the flake8 subprocess for the temp file
Flake8Outputs ==
    { <<>>,
      <<"t",".","p","y",":","1",":","1",":"," ","E","3","0","2"," ","x","\n">>,
      <<"t",".","p","y",":","1",":","1",":"," ","E","3","0","2"," ","x","\n","t",".","p","y",":","2",":","8","0",":"," ","W","2","9","1"," ","y","\n">>,
      <<"a",":","b",":","c","\n","n","o","c","o","l","o","n","\n","t",".","p","y",":","1",":","1",":"," ","\n">> }

\* content of the first choice of the chat completion; U+0060 is the
\* backquote character
Replies ==
    { <<"x"," ","="," ","1">>,
      <<" ","y"," ","="," ","2","\n">>,
      <<"U+0060","U+0060","U+0060","p","y","t","h","o","n","\n","x"," ","="," ","1","\n","U+0060","U+0060","U+0060">>,
      <<"U+0060","U+0060","U+0060","\n","z"," ","="," ","3","\n","U+0060","U+0060","U+0060">>,
      <<"U+0060","U+0060","U+0060">> }

\* a text under repair: the characters it started from and the tools that
\* have rewritten it since (what a tool writes is not computed)
Text(src) == [src |-> src, ops |-> <<>>]

NoneText == [src |-> <<>>, ops |-> <<"None">>]

Rewrite(text, tool) == [text EXCEPT !.ops = Append(@, tool)]

(***************************************************************************)
(* Linter Adapter of the service (app.py: analyze_code_with_linters).      *)
(***************************************************************************)
Finding(type, severity, message) ==
    [type |-> type, severity |-> severity, message |-> message]

\* mutant: the comparison with the declared language is inverted
is_mismatch_inverted(detected_language, language) ==
    detected_language # "unknown" /\ detected_language = language

\* lines 53-59: the mismatch test and its finding (upper-casing of the two
\* tags inside the message is left symbolic)
is_mismatch(detected_language, language) ==
    detected_language # "unknown" /\ detected_language # language

mismatch_issue(detected_language, language) ==
    Finding("language_mismatch", "error",
            <<"Code appears to be ", detected_language,
              " but language is set to ", language,
              ". Please select the correct language.">>)

\* lines 75-88: parse the pylint report
RECURSIVE pylint_issues_of(_)
pylint_issues_of(lines) ==
    IF lines = <<>> THEN <<>>
    ELSE LET line == Head(lines)
             parts == Split(line, <<":">>)
             message == Strip(Join(SubSeq(parts, 3, Len(parts)), <<":">>))
             hit == /\ Strip(line) # <<>>
                    /\ ~StartsWith(line, <<"*">>)
                    /\ ~StartsWith(line, <<"-">>)
                    /\ Contains(line, <<":">>)
                    /\ Len(parts) >= 3
                    /\ message # <<>>
         IN (IF hit THEN <<Finding("pylint", "warning", message)>> ELSE <<>>)
            \o pylint_issues_of(Tail(lines))

parse_pylint(pylint_results) ==
    IF Strip(pylint_results) # <<>>
    THEN pylint_issues_of(Split(Strip(pylint_results), <<"\n">>))
    ELSE <<>>

\* lines 94-106: parse the flake8 stdout
RECURSIVE flake8_issues_of(_)
flake8_issues_of(lines) ==
    IF lines = <<>> THEN <<>>
    ELSE LET line == Head(lines)
             parts == Split(line, <<":">>)
             message == Strip(Join(SubSeq(parts, 4, Len(parts)), <<":">>))
             hit == /\ Strip(line) # <<>>
                    /\ Contains(line, <<":">>)
                    /\ Len(parts) >= 4
                    /\ message # <<>>
         IN (IF hit THEN <<Finding("flake8", "warning", message)>> ELSE <<>>)
            \o flake8_issues_of(Tail(lines))

parse_flake8(stdout) ==
    IF Strip(stdout) # <<>>
    THEN flake8_issues_of(Split(Strip(stdout), <<"\n">>))
    ELSE <<>>

\* lines 118-161: the branches for languages without a linter
heuristic_issues(code, language) ==
    IF language = "javascript"
    THEN <<Finding("language_support", "info", <<"JavaScript linting support is limited.">>)>>
         \o (IF Contains(code, <<"v","a","r"," ">>) /\ ~Contains(code, <<"c","o","n","s","t"," ">>)
                 /\ ~Contains(code, <<"l","e","t"," ">>)
             THEN <<Finding("style", "warning", <<"Consider using const/let instead of var">>)>>
             ELSE <<>>)
    ELSE IF language \in {"java", "cpp", "c"}
    THEN <<Finding("language_support", "info", <<language, " linting support is limited.">>)>>
         \o (IF language = "java" /\ ~Contains(code, <<"c","l","a","s","s"," ">>)
             THEN <<Finding("structure", "warning", <<"Java code should contain at least one class definition">>)>>
             ELSE IF language \in {"c", "cpp"} /\ ~Contains(code, <<"i","n","t"," ","m","a","i","n">>)
                     /\ ~Contains(code, <<"v","o","i","d"," ","m","a","i","n">>)
             THEN <<Finding("structure", "warning", <<"C/C++ code should contain a main function">>)>>
             ELSE <<>>)
    ELSE <<Finding("unsupported", "warning", <<"Language ", language, " is not fully supported.">>)>>

(***************************************************************************)
(* AI Fixer of the service (app.py: fix_code_with_ai).                     *)
(***************************************************************************)
\* lines 201-207: strip the reply and its code fence
clean_reply(content) ==
    LET stripped == Strip(content) IN
    IF StartsWith(stripped, <<"U+0060","U+0060","U+0060">>)
    THEN LET inner == Split(stripped, <<"U+0060","U+0060","U+0060">>)[2] IN
         IF StartsWith(inner, <<"p","y","t","h","o","n">>)
         THEN Strip(SubSeq(inner, 7, Len(inner)))
         ELSE inner
    ELSE stripped

\* what the model endpoint does with one request
ApiOutcomes ==
    {[kind |-> "reply", content |-> r] : r \in Replies}
    \cup {[kind |-> "raise", content |-> <<>>],
          [kind |-> "null", content |-> <<>>]}

\* the value of a call: what it returns, or the exception that leaves it
Returned(fixed_code, error) ==
    [fixed_code |-> fixed_code, error |-> error, raised |-> "none"]

\* fix_code_with_ai(code, issues, language) -> (fixed_code, error);
\* "null" is a reply whose content is None, on which .strip() raises
\* inside the try block
fix_code_with_ai(code, client, outcome) ==
    IF ~client
    THEN Returned(Text(code), "OpenAI API key not configured")
    ELSE IF outcome.kind = "reply"
    THEN Returned(Text(clean_reply(outcome.content)), "None")
    ELSE Returned(Text(code), "AI fix failed")

(***************************************************************************)
(* Formatter Adapter of the service (app.py: format_code).                 *)
(***************************************************************************)
ToolOutcomes == {"same", "changed", "raise"}

\* one library call on a text
Apply(text, tool, outcome) ==
    IF outcome = "changed" THEN Rewrite(text, tool) ELSE text

\* format_code(code, language): isort, then autopep8, both inside one try
\* whose handler only prints; code keeps what was assigned before the raise
format_code(text, language, isort_outcome, autopep8_outcome) ==
    IF language = "python"
    THEN IF isort_outcome = "raise" THEN text
         ELSE Apply(Apply(text, "isort", isort_outcome), "autopep8", autopep8_outcome)
    ELSE text

(***************************************************************************)
(* create_github_pr (app.py): any failing step is caught.                  *)
(***************************************************************************)
\* mutant: the git steps without the try / except around them
create_github_pr_no_except(ok, n_issues) ==
    IF ok
    THEN [success |-> TRUE, message |-> "PR created successfully",
          fixes |-> n_issues, raised |-> "none"]
    ELSE [success |-> FALSE, message |-> "None", fixes |-> 0,
          raised |-> "CalledProcessError"]

create_github_pr(ok, n_issues) ==
    IF ok
    THEN [success |-> TRUE, message |-> "PR created successfully",
          fixes |-> n_issues, raised |-> "none"]
    ELSE [success |-> FALSE, message |-> "Failed to create PR", fixes |-> 0,
          raised |-> "none"]

NoPr == [success |-> FALSE, message |-> "None", fixes |-> 0, raised |-> "none"]

(***************************************************************************)
(* State.                                                                  *)
(***************************************************************************)
VARIABLES
    mode,           \* "service" (app.py) or "batch" (review_pr.py)
    route,          \* service: "analyze" or "fix"; batch: "main"
    pc,             \* position of the handler / of main()
    code,           \* service: data.get('code')
    language,       \* service: data.get('language')
    create_pr,      \* service: data.get('create_pr')
    api_key,        \* OPENAI_API_KEY is set (service: client is not None)
    issues,         \* findings of the (first) lint step
    temp_file,      \* service: "absent", "present" or "unlinked"
    exc,            \* pending exception inside a try block, or "none"
    fixed_code,     \* service: fixed_code of the handler
    response,       \* service: what the handler returned
    trace,          \* steps of the current run, in order
    lints,          \* number of findings of each lint step of the run
    api_calls,      \* chat completion requests sent during the run
    python_files,   \* batch: the paths found by rglob
    idx,            \* batch: position of the per-file loop
    content,        \* batch: text of each file on disk
    before,         \* batch: text of the current file when its run began
    remaining_issues,
    auto_fixed,
    ai_fixed,
    total_issues,
    fixed_files,
    ai_fixed_files,
    delivery        \* batch: git / gh commands that completed, in order

svars == <<code, language, create_pr, temp_file, exc, fixed_code, response>>

bvars == <<python_files, idx, content, before, remaining_issues, auto_fixed,
           ai_fixed, total_issues, fixed_files, ai_fixed_files, delivery>>

vars == <<mode, route, pc, api_key, issues, trace, lints, api_calls,
          svars, bvars>>

(***************************************************************************)
(* Responses of the service.                                               *)
(***************************************************************************)
NoResponse ==
    [status |-> 0, kind |-> "none", error |-> "None",
     original_code |-> NoneText, fixed_code |-> NoneText, issues |-> <<>>,
     pr_result |-> NoPr]

\* jsonify({'error': error}), status
ErrorResponse(status, error) ==
    [NoResponse EXCEPT !.status = status, !.kind = "error", !.error = error]

\* an exception that leaves the view function: Flask answers 500
Unhandled(e) ==
    [NoResponse EXCEPT !.status = 500, !.kind = "unhandled", !.error = e]

(***************************************************************************)
(* Bounds and the batch runner's inputs.                                   *)
(***************************************************************************)
MaxFiles == 2

\* paths as Path.parts
Paths ==
    { << <<"a",".","p","y">> >>,
      << <<"p","k","g">>, <<"b",".","p","y">> >>,
      << <<".","g","i","t">>, <<"h",".","p","y">> >>,
      << <<"_","_","p","y","c","a","c","h","e","_","_">>, <<"c",".","p","y">> >> }

\* the lists rglob('*.py') can return: distinct paths
FileLists ==
    UNION { { fl \in [1..n -> Paths] : \A i, j \in 1..n : i # j => fl[i] # fl[j] }
            : n \in 0..MaxFiles }

(***************************************************************************)
(* Init: one request to the service, or one start of the batch runner.     *)
(***************************************************************************)
InitService ==
    /\ mode = "service"
    /\ route \in {"analyze", "fix"}
    /\ pc = "request"
    /\ code \in Snippets
    /\ language \in Languages
    /\ create_pr \in BOOLEAN
    /\ python_files = <<>>
    /\ content = <<>>

InitBatch ==
    /\ mode = "batch"
    /\ route = "main"
    /\ pc = "main"
    /\ code = <<>>
    /\ language = "python"
    /\ create_pr = FALSE
    /\ python_files \in FileLists
    /\ content = [i \in 1..Len(python_files) |-> Text(python_files[i])]

Init ==
    /\ InitService \/ InitBatch
    /\ api_key \in BOOLEAN
    /\ issues = <<>>
    /\ temp_file = "absent"
    /\ exc = "none"
    /\ fixed_code = NoneText
    /\ response = NoResponse
    /\ trace = <<>>
    /\ lints = <<>>
    /\ api_calls = 0
    /\ idx = 0
    /\ before = NoneText
    /\ remaining_issues = <<>>
    /\ auto_fixed = FALSE
    /\ ai_fixed = FALSE
    /\ total_issues = 0
    /\ fixed_files = <<>>
    /\ ai_fixed_files = <<>>
    /\ delivery = <<>>

(***************************************************************************)
(* Service: the /analyze and /fix handlers, with analyze_code_with_linters *)
(* stepped through so that every exit path is a path of the model.         *)
(***************************************************************************)
Service(at) == mode = "service" /\ pc = at

\* the view function is left: by return, or by an exception Flask reports
Respond(r) == response' = r /\ pc' = "done"

\* analyze(), lines 307-312, and fix(), lines 324-330
Validate ==
    /\ Service("request")
    /\ IF Strip(code) = <<>>
       THEN Respond(ErrorResponse(400, "No code provided"))
       ELSE pc' = "detect" /\ UNCHANGED response
    /\ UNCHANGED <<mode, route, api_key, issues, trace, lints, api_calls,
                   code, language, create_pr, temp_file, exc, fixed_code, bvars>>

\* analyze_code_with_linters, lines 47-61 and 118-163
AnalyzeDetect ==
    /\ Service("detect")
    /\ LET detected_language == detect_language_from_code(code) IN
       IF is_mismatch(detected_language, language)
       THEN /\ issues' = <<mismatch_issue(detected_language, language)>>
            /\ trace' = trace \o <<"lint", "detect">>
            /\ lints' = Append(lints, 1)
            /\ pc' = "analyzed"
       ELSE IF language = "python"
       THEN /\ issues' = <<>>
            /\ trace' = trace \o <<"lint", "detect">>
            /\ lints' = lints
            /\ pc' = "mktemp"
       ELSE /\ issues' = heuristic_issues(code, language)
            /\ trace' = trace \o <<"lint", "detect", "heuristic">>
            /\ lints' = Append(lints, Len(issues'))
            /\ pc' = "analyzed"
    /\ UNCHANGED <<mode, route, api_key, api_calls, svars, bvars>>

\* line 63: NamedTemporaryFile(mode='w', suffix='.py', delete=False)
MkTemp ==
    /\ Service("mktemp")
    /\ trace' = Append(trace, "mktemp")
    /\ \E ok \in BOOLEAN :
         IF ok
         THEN temp_file' = "present" /\ pc' = "write" /\ UNCHANGED response
         ELSE temp_file' = temp_file /\ Respond(Unhandled("OSError"))
    /\ UNCHANGED <<mode, route, api_key, issues, lints, api_calls,
                   code, language, create_pr, exc, fixed_code, bvars>>

\* the text file encodes what it is given: a lone surrogate cannot be
Encodable(text) == \A i \in 1..Len(text) : text[i] # "U+D800"

\* lines 64-65: f.write(code) inside the with block, before the try; the
\* with block closes the file, it does not delete it
WriteTemp ==
    /\ Service("write")
    /\ trace' = Append(trace, "write")
    /\ \E io_ok \in BOOLEAN :
         IF io_ok /\ Encodable(code)
         THEN pc' = "pylint" /\ UNCHANGED response
         ELSE Respond(Unhandled(IF Encodable(code) THEN "OSError"
                                ELSE "UnicodeEncodeError"))
    /\ UNCHANGED <<mode, route, api_key, issues, lints, api_calls,
                   code, language, create_pr, temp_file, exc, fixed_code, bvars>>

\* lines 68-88: PylintRun inside try ... finally, no except clause
Pylint ==
    /\ Service("pylint")
    /\ trace' = Append(trace, "pylint")
    /\ \/ \E pylint_results \in PylintOutputs :
            /\ issues' = issues \o parse_pylint(pylint_results)
            /\ exc' = exc
            /\ pc' = "flake8"
       \/ /\ issues' = issues
          /\ exc' = "pylint crashed"
          /\ pc' = "finally"
    /\ UNCHANGED <<mode, route, api_key, lints, api_calls,
                   code, language, create_pr, temp_file, fixed_code, response, bvars>>

flake8_timeout_issue == Finding("flake8", "error", <<"Flake8 analysis timed out">>)

\* lines 90-112: subprocess.run(['flake8', ...], timeout=30); the except
\* clause names subprocess.TimeoutExpired only
Flake8 ==
    /\ Service("flake8")
    /\ trace' = Append(trace, "flake8")
    /\ \/ \E stdout \in Flake8Outputs :
            /\ issues' = issues \o parse_flake8(stdout)
            /\ exc' = exc
       \/ /\ issues' = Append(issues, flake8_timeout_issue)
          /\ exc' = exc
       \/ /\ issues' = issues
          /\ exc' = "FileNotFoundError"
    /\ pc' = "finally"
    /\ UNCHANGED <<mode, route, api_key, lints, api_calls,
                   code, language, create_pr, temp_file, fixed_code, response, bvars>>

\* lines 114-116 and 163: os.unlink(temp_file), then return issues or let
\* the pending exception go on
Finally ==
    /\ Service("finally")
    /\ trace' = Append(trace, "unlink")
    /\ temp_file' = "unlinked"
    /\ IF exc = "none"
       THEN /\ pc' = "analyzed"
            /\ lints' = Append(lints, Len(issues))
            /\ UNCHANGED response
       ELSE /\ Respond(Unhandled(exc))
            /\ lints' = lints
    /\ UNCHANGED <<mode, route, api_key, issues, api_calls,
                   code, language, create_pr, exc, fixed_code, bvars>>

\* analyze(), lines 315-320
AnalyzeRespond ==
    /\ Service("analyzed") /\ route = "analyze"
    /\ Respond([NoResponse EXCEPT !.status = 200, !.kind = "issues",
                                  !.issues = issues])
    /\ UNCHANGED <<mode, route, api_key, issues, trace, lints, api_calls,
                   code, language, create_pr, temp_file, exc, fixed_code, bvars>>

\* mutant: the handler goes on to the AI step without looking at issues
FixCheck_no_clean_exit ==
    /\ Service("analyzed") /\ route = "fix"
    /\ pc' = "ai"
    /\ UNCHANGED <<mode, route, api_key, issues, trace, lints, api_calls,
                   svars, bvars>>

\* fix(), lines 335-340
FixCheck ==
    /\ Service("analyzed") /\ route = "fix"
    /\ IF issues = <<>>
       THEN Respond([NoResponse EXCEPT !.status = 200, !.kind = "clean",
                                       !.fixed_code = Text(code)])
       ELSE pc' = "ai" /\ UNCHANGED response
    /\ UNCHANGED <<mode, route, api_key, issues, trace, lints, api_calls,
                   code, language, create_pr, temp_file, exc, fixed_code, bvars>>

\* fix(), lines 343-346: fix_code_with_ai is called whatever the findings
\* and the credential are; an error it reports ends the request with 500
FixAI ==
    /\ Service("ai")
    /\ \E outcome \in ApiOutcomes :
         LET r == fix_code_with_ai(code, api_key, outcome) IN
         /\ trace' = trace \o <<"ai">>
                       \o (IF api_key THEN <<"api">> ELSE <<>>)
                       \o (IF api_key /\ outcome.kind # "reply"
                           THEN <<"api_failed">> ELSE <<>>)
         /\ api_calls' = IF api_key THEN api_calls + 1 ELSE api_calls
         /\ IF r.raised # "none"
            THEN Respond(Unhandled(r.raised)) /\ UNCHANGED fixed_code
            ELSE /\ fixed_code' = r.fixed_code
                 /\ IF r.error # "None"
                    THEN Respond(ErrorResponse(500, r.error))
                    ELSE pc' = "format" /\ UNCHANGED response
    /\ UNCHANGED <<mode, route, api_key, issues, lints,
                   code, language, create_pr, temp_file, exc, bvars>>

\* fix(), line 349
FixFormat ==
    /\ Service("format")
    /\ \E isort_outcome \in ToolOutcomes, autopep8_outcome \in ToolOutcomes :
         /\ fixed_code' = format_code(fixed_code, language, isort_outcome, autopep8_outcome)
         /\ trace' = trace \o <<"format">>
                       \o (IF language = "python"
                              /\ "raise" \in {isort_outcome, autopep8_outcome}
                           THEN <<"format_failed">> ELSE <<>>)
    /\ pc' = "pr"
    /\ UNCHANGED <<mode, route, api_key, issues, lints, api_calls,
                   code, language, create_pr, temp_file, exc, response, bvars>>

\* fix(), lines 351-362
FixRespond ==
    /\ Service("pr")
    /\ \E ok \in BOOLEAN :
         LET pr_result == IF create_pr THEN create_github_pr(ok, Len(issues))
                          ELSE NoPr
         IN IF pr_result.raised # "none"
            THEN Respond(Unhandled(pr_result.raised))
            ELSE Respond([NoResponse EXCEPT !.status = 200, !.kind = "fixed",
                                            !.original_code = Text(code),
                                            !.fixed_code = fixed_code,
                                            !.issues = issues,
                                            !.pr_result = pr_result])
    /\ trace' = IF create_pr THEN Append(trace, "pr") ELSE trace
    /\ UNCHANGED <<mode, route, api_key, issues, lints, api_calls,
                   code, language, create_pr, temp_file, exc, fixed_code, bvars>>

(***************************************************************************)
(* Batch runner (review_pr.py).                                            *)
(***************************************************************************)
\* "line": null in a JSON report (issue.get('line', 0) is then None)
NullLine == -1

\* one entry of a linter's JSON report, reduced to the keys the runner
\* branches on: pylint's 'type' and flake8's 'code'
PylintJson ==
    { <<>>,
      << [type |-> "convention", line |-> 1] >>,
      << [type |-> "error", line |-> 1] >>,
      << [type |-> "warning", line |-> 1], [type |-> "error", line |-> 2] >>,
      << [type |-> "error", line |-> 1], [type |-> "error", line |-> NullLine] >> }

Flake8Json ==
    { <<>>,
      << [code |-> <<"E","3","0","2">>, line |-> 1] >>,
      << [code |-> <<"W","2","9","1">>, line |-> 1], [code |-> <<"E","5","0","1">>, line |-> 2] >> }

\* what one linter subprocess does: it cannot be started ("raise"), exits
\* with 0 ("exit0"), exits non-zero with a JSON list on stdout ("json") or
\* with something json.loads rejects ("malformed")
LinterOutcomes(reports) ==
    {[kind |-> k, data |-> <<>>] : k \in {"raise", "exit0", "malformed"}}
    \cup {[kind |-> "json", data |-> d] : d \in reports}

BatchFinding(type, line, severity) ==
    [type |-> type, line |-> line, severity |-> severity]

\* lines 55-71: the pylint half of run_linters
pylint_findings(outcome) ==
    IF outcome.kind = "json"
    THEN [i \in 1..Len(outcome.data) |->
             BatchFinding("pylint", outcome.data[i].line, outcome.data[i].type)]
    ELSE <<>>

\* lines 73-89: the flake8 half of run_linters
flake8_findings(outcome) ==
    IF outcome.kind = "json"
    THEN [i \in 1..Len(outcome.data) |->
             BatchFinding("flake8", outcome.data[i].line,
                          IF StartsWith(outcome.data[i].code, <<"E">>)
                          THEN "error" ELSE "warning")]
    ELSE <<>>

\* run_linters(file_path): each tool inside its own try / except Exception
run_linters(pylint_outcome, flake8_outcome) ==
    pylint_findings(pylint_outcome) \o flake8_findings(flake8_outcome)

\* what one formatter subprocess does: leaves the file as it is ("same"),
\* rewrites it ("changed"), exits non-zero ("failed": CalledProcessError)
\* or cannot be started ("missing": FileNotFoundError)
BatchToolOutcomes == {"same", "changed", "failed", "missing"}

\* apply_auto_fixes(file_path): autopep8 in place, then isort in place;
\* only CalledProcessError is caught
apply_auto_fixes(text, autopep8_outcome, isort_outcome) ==
    LET after1 == Apply(text, "autopep8", autopep8_outcome)
        after2 == Apply(after1, "isort", isort_outcome)
    IN IF autopep8_outcome = "missing"
       THEN [text |-> text, result |-> "raise"]
       ELSE IF autopep8_outcome = "failed"
       THEN [text |-> text, result |-> "False"]
       ELSE IF isort_outcome = "missing"
       THEN [text |-> after1, result |-> "raise"]
       ELSE IF isort_outcome = "failed"
       THEN [text |-> after1, result |-> "False"]
       ELSE [text |-> after2, result |-> "True"]

\* lines 108-109: the findings the fixer sends to the model
Eligible(issue) ==
    issue.severity \in {"error", "warning"} /\ issue.type = "pylint"

RECURSIVE EligibleCount(_)
EligibleCount(iss) ==
    IF iss = <<>> THEN 0
    ELSE (IF Eligible(Head(iss)) THEN 1 ELSE 0) + EligibleCount(Tail(iss))

\* get_openai_fix: None after a caught API error ("error"), the context
\* it was sent ("same"), the empty string ("empty"), one line of other
\* text ("fix"), one line holding a character the file's encoding refuses
\* ("unencodable"), or six lines of which the last holds one
\* ("unencodable_tail")
FixOutcomes ==
    {"error", "same", "empty", "fix", "unencodable", "unencodable_tail"}

\* ai_fix.split('\n') for a reply of the given kind to code_context
ReplyLines(kind, code_context) ==
    CASE kind = "same" -> code_context
      [] kind = "empty" -> <<"">>
      [] kind = "fix" -> <<"fixed">>
      [] kind = "unencodable" -> <<"U+D800">>
      [] kind = "unencodable_tail" ->
             <<"fixed", "fixed", "fixed", "fixed", "fixed", "U+D800">>

\* content.split('\n') of the file the fixer reads, line 104
FileLines == { <<"L1", "L2", "L3">> }

Max(a, b) == IF a >= b THEN a ELSE b
Min(a, b) == IF a <= b THEN a ELSE b

\* lines 107-125: the loop over the findings.  fixes[k] is the kind of
\* the reply to the k-th request, calls counts the requests sent, lines
\* is the list being edited.  A finding whose line is None raises
\* TypeError at line 111, before its request, and ends the loop.  The
\* slice lines[start_line:end_line] is SubSeq(lines, s + 1, e); the text
\* of an empty slice is '', the text of one empty line.
RECURSIVE ai_fix_loop(_, _, _, _, _)
ai_fix_loop(iss, fixes, calls, lines, fixed_any) ==
    IF iss = <<>>
    THEN [raised |-> FALSE, calls |-> calls, lines |-> lines,
          fixed_any |-> fixed_any]
    ELSE IF ~Eligible(Head(iss))
    THEN ai_fix_loop(Tail(iss), fixes, calls, lines, fixed_any)
    ELSE IF Head(iss).line = NullLine
    THEN [raised |-> TRUE, calls |-> calls, lines |-> lines,
          fixed_any |-> fixed_any]
    ELSE LET start_line == Max(0, Head(iss).line - 3)
             end_line == Min(Len(lines), Head(iss).line + 3)
             s == Min(start_line, Len(lines))
             e == Max(end_line, s)
             slice == SubSeq(lines, s + 1, e)
             code_context == IF slice = <<>> THEN <<"">> ELSE slice
             kind == fixes[calls + 1]
             replaced == /\ kind # "error"
                         /\ ReplyLines(kind, code_context) # <<"">>
                         /\ ReplyLines(kind, code_context) # code_context
         IN ai_fix_loop(Tail(iss), fixes, calls + 1,
                        IF replaced
                        THEN SubSeq(lines, 1, s)
                             \o ReplyLines(kind, code_context)
                             \o SubSeq(lines, e + 1, Len(lines))
                        ELSE lines,
                        fixed_any \/ replaced)

\* f.write raises UnicodeEncodeError on these lines
Unwritable(lines) == \E k \in 1..Len(lines) : lines[k] = "U+D800"

\* fix_code_with_ai(file_path, issues) of the runner, on a file whose
\* text splits into lines: one request per eligible finding; every
\* exception is caught and gives False.  The file is written once, at the
\* end, if any reply replaced lines: open(file_path, 'w') empties it, and
\* when f.write then fails on a character still in the lines the file
\* stays empty and the result is False.
fix_file_with_ai(text, lines, iss, key, readable, fixes) ==
    LET loop == ai_fix_loop(iss, fixes, 0, lines, FALSE) IN
    IF ~key THEN [text |-> text, result |-> FALSE, calls |-> 0]
    ELSE IF ~readable THEN [text |-> text, result |-> FALSE, calls |-> 0]
    ELSE IF loop.raised \/ ~loop.fixed_any
    THEN [text |-> text, result |-> FALSE, calls |-> loop.calls]
    ELSE IF Unwritable(loop.lines)
    THEN [text |-> Rewrite(text, "truncate"), result |-> FALSE, calls |-> loop.calls]
    ELSE [text |-> Rewrite(text, "ai"), result |-> TRUE, calls |-> loop.calls]

\* lines 160-161: any(part.startswith('.') or part == '__pycache__' ...)
Skipped(path) ==
    \E k \in 1..Len(path) :
        StartsWith(path[k], <<".">>) \/ path[k] = <<"_","_","p","y","c","a","c","h","e","_","_">>

Batch(at) == mode = "batch" /\ pc = at

\* main(), lines 143-153
BatchStart ==
    /\ Batch("main")
    /\ pc' = IF python_files = <<>> THEN "done" ELSE "next_file"
    /\ UNCHANGED <<mode, route, api_key, issues, trace, lints, api_calls,
                   svars, bvars>>

\* main(), lines 155-162: the loop header and the skip of hidden paths.
\* trace, lints, api_calls and before describe the run that begins; the
\* loop's locals are assigned again before the next iteration reads them,
\* so they are cleared here
NextFile ==
    /\ Batch("next_file")
    /\ trace' = <<>>
    /\ lints' = <<>>
    /\ api_calls' = 0
    /\ issues' = <<>>
    /\ remaining_issues' = <<>>
    /\ auto_fixed' = FALSE
    /\ ai_fixed' = FALSE
    /\ IF idx = Len(python_files)
       THEN pc' = "summary" /\ UNCHANGED <<idx, before>>
       ELSE /\ idx' = idx + 1
            /\ before' = content[idx + 1]
            /\ pc' = IF Skipped(python_files[idx + 1]) THEN "next_file" ELSE "lint"
    /\ UNCHANGED <<mode, route, api_key, svars, python_files, content,
                   total_issues, fixed_files, ai_fixed_files, delivery>>

\* main(), lines 165-171
BatchLint ==
    /\ Batch("lint")
    /\ \E po \in LinterOutcomes(PylintJson), fo \in LinterOutcomes(Flake8Json) :
         /\ issues' = run_linters(po, fo)
         /\ trace' = trace \o <<"lint", "pylint", "flake8">>
    /\ lints' = Append(lints, Len(issues'))
    /\ IF issues' = <<>>
       THEN pc' = "next_file" /\ UNCHANGED total_issues
       ELSE pc' = "autofix" /\ total_issues' = total_issues + Len(issues')
    /\ UNCHANGED <<mode, route, api_key, api_calls, svars, python_files, idx,
                   content, before, remaining_issues, auto_fixed, ai_fixed,
                   fixed_files, ai_fixed_files, delivery>>

\* main(), lines 174-176
BatchAutoFix ==
    /\ Batch("autofix")
    /\ \E ao \in BatchToolOutcomes, io \in BatchToolOutcomes :
         LET r == apply_auto_fixes(content[idx], ao, io) IN
         /\ trace' = trace \o <<"format">>
                       \o (IF r.result # "True" THEN <<"format_failed">> ELSE <<>>)
         /\ content' = [content EXCEPT ![idx] = r.text]
         /\ auto_fixed' = (r.result = "True")
         /\ pc' = IF r.result = "raise" THEN "crashed" ELSE "relint"
    /\ UNCHANGED <<mode, route, api_key, issues, lints, api_calls, svars,
                   python_files, idx, before, remaining_issues, ai_fixed,
                   total_issues, fixed_files, ai_fixed_files, delivery>>

\* main(), line 179
BatchRelint ==
    /\ Batch("relint")
    /\ \E po \in LinterOutcomes(PylintJson), fo \in LinterOutcomes(Flake8Json) :
         /\ remaining_issues' = run_linters(po, fo)
         /\ trace' = trace \o <<"lint", "pylint", "flake8">>
    /\ lints' = Append(lints, Len(remaining_issues'))
    /\ pc' = "ai"
    /\ UNCHANGED <<mode, route, api_key, issues, api_calls, svars,
                   python_files, idx, content, before, auto_fixed, ai_fixed,
                   total_issues, fixed_files, ai_fixed_files, delivery>>

\* k times the event e
RECURSIVE Times(_, _)
Times(k, e) == IF k = 0 THEN <<>> ELSE <<e>> \o Times(k - 1, e)

\* main(), lines 182-190: the AI step and the end of the loop body
BatchAI ==
    /\ Batch("ai")
    /\ IF remaining_issues # <<>> /\ api_key
       THEN \E r \in { fix_file_with_ai(content[idx], lines, remaining_issues,
                                        api_key, readable, fixes) :
                       readable \in BOOLEAN, lines \in FileLines,
                       fixes \in [1..EligibleCount(remaining_issues)
                                  -> FixOutcomes] } :
              /\ content' = [content EXCEPT ![idx] = r.text]
              /\ ai_fixed' = r.result
              /\ api_calls' = api_calls + r.calls
              /\ trace' = trace \o <<"ai">> \o Times(r.calls, "api")
       ELSE /\ ai_fixed' = FALSE
            /\ UNCHANGED <<content, api_calls, trace>>
    /\ ai_fixed_files' = IF ai_fixed' THEN Append(ai_fixed_files, idx)
                         ELSE ai_fixed_files
    /\ fixed_files' = IF auto_fixed \/ ai_fixed' THEN Append(fixed_files, idx)
                      ELSE fixed_files
    /\ pc' = "next_file"
    /\ UNCHANGED <<mode, route, api_key, issues, lints, svars, python_files,
                   idx, before, remaining_issues, auto_fixed, total_issues,
                   delivery>>

\* main(), lines 192-204 and 262-263
Summary ==
    /\ Batch("summary")
    /\ pc' = IF fixed_files # <<>> THEN "deliver" ELSE "done"
    /\ UNCHANGED <<mode, route, api_key, issues, trace, lints, api_calls,
                   svars, bvars>>

\* lines 209-222: the git commands, each with check=True
GitCommands == <<"checkout", "add", "commit", "push">>

\* what a delivery subprocess does: exits with 0 ("ok"), exits non-zero
\* ("failed") or cannot be started ("missing")
CommandOutcomes == {"ok", "failed", "missing"}

\* main(), lines 207-222 and 260-261: the next git command; only
\* CalledProcessError is caught
GitStep ==
    /\ Batch("deliver")
    /\ Len(delivery) < Len(GitCommands)
    /\ \E o \in CommandOutcomes :
         /\ delivery' = IF o = "ok"
                        THEN Append(delivery, GitCommands[Len(delivery) + 1])
                        ELSE delivery
         /\ pc' = CASE o = "ok" -> "deliver"
                    [] o = "failed" -> "done"
                    [] o = "missing" -> "crashed"
    /\ UNCHANGED <<mode, route, api_key, issues, trace, lints, api_calls,
                   svars, python_files, idx, content, before, remaining_issues,
                   auto_fixed, ai_fixed, total_issues, fixed_files,
                   ai_fixed_files>>

\* main(), lines 245-258: gh pr create, without check=True
GhPrCreate ==
    /\ Batch("deliver")
    /\ Len(delivery) = Len(GitCommands)
    /\ \E o \in CommandOutcomes :
         /\ delivery' = IF o = "ok" THEN Append(delivery, "pr") ELSE delivery
         /\ pc' = IF o = "missing" THEN "crashed" ELSE "done"
    /\ UNCHANGED <<mode, route, api_key, issues, trace, lints, api_calls,
                   svars, python_files, idx, content, before, remaining_issues,
                   auto_fixed, ai_fixed, total_issues, fixed_files,
                   ai_fixed_files>>

(***************************************************************************)
(* Properties.                                                             *)
(***************************************************************************)
\* the step e occurred in the current run
Has(e) == \E i \in 1..Len(trace) : trace[i] = e

\* the tools that have rewritten a text
Tools(text) == {text.ops[k] : k \in 1..Len(text.ops)}

\* the /fix handler has answered
FixDone == mode = "service" /\ route = "fix" /\ pc = "done"

\* the loop body of main() has ended for a file that was not skipped
RunEnded ==
    /\ mode = "batch" /\ pc = "next_file"
    /\ idx > 0 /\ ~Skipped(python_files[idx])

\* the first lint step of the current run returned no finding
FirstLintClean == Len(lints) >= 1 /\ lints[1] = 0

\* the first lint step of the current run returned findings
FirstLintDirty == Len(lints) >= 1 /\ lints[1] > 0

\* C1: in a run whose first lint step returns zero findings, neither the
\* AI fixer nor the formatter is invoked, and the run ends with the code
\* equal to the input code
C1_CleanRunUntouched ==
    FirstLintClean =>
        /\ ~Has("ai") /\ ~Has("api") /\ ~Has("format")
        /\ FixDone => response.kind = "clean" /\ response.fixed_code = Text(code)
        /\ mode = "batch" => pc = "next_file" /\ content[idx] = before

C1_Witness ==
    /\ FixDone /\ FirstLintClean /\ response.fixed_code = Text(code)
    /\ Has("pylint") /\ Has("flake8")

\* C2: a /fix request whose declared language differs from the detected
\* one (detected not unknown) ends without the AI fixer, the formatter or
\* PR creation being invoked, its result carrying the mismatch finding alone
C2_MismatchShortCircuitsFix ==
    (FixDone /\ detect_language_from_code(code) # "unknown"
             /\ detect_language_from_code(code) # language
             /\ Strip(code) # <<>>) =>
        /\ ~Has("ai") /\ ~Has("format") /\ ~Has("pr")
        /\ response.issues =
               <<mismatch_issue(detect_language_from_code(code), language)>>

\* the position of the first occurrence of e in the trace, 0 if none
FirstAt(e) ==
    IF Has(e) THEN CHOOSE i \in 1..Len(trace) :
                       trace[i] = e /\ \A j \in 1..(i - 1) : trace[j] # e
    ELSE 0

\* the position of the last occurrence of e in the trace, 0 if none
LastAt(e) ==
    IF Has(e) THEN CHOOSE i \in 1..Len(trace) :
                       trace[i] = e /\ \A j \in (i + 1)..Len(trace) : trace[j] # e
    ELSE 0

\* the number of occurrences of e in the trace
Count(e) == Cardinality({i \in 1..Len(trace) : trace[i] = e})

\* C3: the AI fixing step is entered only if the re-lint after formatting
\* still has findings and a credential is configured; a run with findings
\* and no credential still ends successfully, with the formatted-only code
C3_AiOnlyAfterRelintWithCredential ==
    /\ Has("ai") => Len(lints) >= 2 /\ lints[2] > 0 /\ api_key
    /\ (FixDone /\ FirstLintDirty /\ ~api_key) =>
           response.status = 200 /\ response.kind = "fixed"
    /\ (RunEnded /\ FirstLintDirty /\ ~api_key) => ~Has("ai") /\ Has("format")

\* C4: in a run that has findings the formatter runs before the AI fixer
\* is invoked, a re-lint happens between the two, and when the AI fixer
\* produced new code the formatter runs once more before the run ends
C4_LintFormatRelintAiFormat ==
    /\ Has("ai") =>
           /\ Has("format") /\ FirstAt("format") < FirstAt("ai")
           /\ \E k \in 1..Len(trace) :
                  /\ trace[k] = "lint"
                  /\ FirstAt("format") < k /\ k < FirstAt("ai")
    /\ (RunEnded /\ ai_fixed) => LastAt("format") > LastAt("ai")
    /\ (FixDone /\ response.kind = "fixed") => LastAt("format") > LastAt("ai")

C4_Reached == RunEnded /\ ai_fixed /\ LastAt("format") < LastAt("ai")

\* C5: per run at most one AI attempt is made: the model endpoint is
\* called at most once, however many findings remain, the AI fixer is
\* entered at most once and no lint step follows it
C5_OneEndpointCallPerRun ==
    /\ api_calls <= 1
    /\ Count("ai") <= 1
    /\ Has("ai") => LastAt("lint") < FirstAt("ai")

\* the snippet contains one of the detector's Java indicators
JavaLooking(text) == AnyIn(java_indicators, Strip(Lower(text)))

\* analyze_code_with_linters has returned or has let an exception go on
Analyzed == mode = "service" /\ pc \notin {"request", "detect", "mktemp",
                                           "write", "pylint", "flake8", "finally"}

\* C6: a snippet that contains a Java indicator and is declared python
\* gets exactly one finding, of type language_mismatch, and no linter runs
C6_JavaTaggedPythonIsMismatch ==
    (mode = "service" /\ JavaLooking(code) /\ language = "python"
         /\ pc \notin {"request", "detect"}) =>
        /\ Len(issues) = 1 /\ issues[1].type = "language_mismatch"
        /\ ~Has("mktemp") /\ ~Has("pylint") /\ ~Has("flake8")

\* C7: when the detected language is not unknown and differs from the
\* declared one, analyze_code_with_linters returns exactly one finding, of
\* type language_mismatch and severity error, and no temp file, linter or
\* heuristic check has been used
C7_MismatchReturnsOneError ==
    (mode = "service" /\ pc \notin {"request", "detect"}
         /\ detect_language_from_code(code) # "unknown"
         /\ detect_language_from_code(code) # language) =>
        /\ Len(issues) = 1
        /\ issues[1].type = "language_mismatch"
        /\ issues[1].severity = "error"
        /\ lints[1] = 1
        /\ temp_file = "absent"
        /\ ~Has("mktemp") /\ ~Has("write") /\ ~Has("pylint")
        /\ ~Has("flake8") /\ ~Has("heuristic")

C7_Witness ==
    /\ mode = "service" /\ pc = "analyzed" /\ language = "python"
    /\ detect_language_from_code(code) = "java"
    /\ Len(issues) = 1 /\ issues[1].type = "language_mismatch"

\* C8: the AI fixer lets no exception reach its caller; whenever it
\* reports an error (no credential, a failed API call, or any failure it
\* catches) the error marker is non-null and the code is the code it was
\* given: the service's fixed_code is the request's code, the file of the
\* batch fixer that returned False is as the formatters left it
C8_AiFixerFailsSoft ==
    /\ (mode = "service" /\ Has("ai")) =>
           /\ response.kind # "unhandled"
           /\ (~api_key \/ Has("api_failed")) =>
                  /\ response.kind = "error" /\ response.error # "None"
                  /\ fixed_code = Text(code)
           /\ response.kind = "error" => fixed_code = Text(code)
    /\ (RunEnded /\ Has("ai") /\ ~ai_fixed) =>
           Tools(content[idx]) \subseteq {"autopep8", "isort"}

\* C9: when analyze_code_with_linters has returned or propagated, no temp
\* file it created still exists
C9_TempFileAlwaysDeleted == Analyzed => temp_file # "present"

\* C10: a failing linter does not abort the other one: after pylint has
\* been started flake8 is started too, and no linter failure leaves the
\* analysis as an exception
C10_LinterFailureIsolated ==
    /\ (Analyzed /\ Has("pylint")) => Has("flake8")
    /\ Analyzed => response.kind # "unhandled"
                   \/ response.error \notin {"pylint crashed", "FileNotFoundError"}
    /\ (mode = "batch" /\ Has("pylint")) => Has("flake8") /\ pc # "crashed"

\* C11: the formatter never raises to its caller; when the import sorter
\* or the PEP8 fixer fails the text is exactly the text the formatter was
\* given; for a language other than python the text is returned unchanged
C11_FormatterFailsToOriginal ==
    /\ (mode = "service" /\ Has("format")) => response.kind # "unhandled"
    /\ (mode = "service" /\ Has("format_failed")) => Tools(fixed_code) = {}
    /\ (mode = "service" /\ Has("format") /\ language # "python") =>
           Tools(fixed_code) = {}
    /\ (mode = "batch" /\ Has("format_failed")) =>
           /\ pc # "crashed"
           /\ Tools(content[idx]) \cap {"autopep8", "isort"} = {}

\* C12: a /fix request that reached PR creation answers with the fixed
\* code, the original code and the findings it had computed, whether PR
\* creation succeeded or not; a failure shows only in pr_result (success
\* false and a message) and no exception leaves create_github_pr
C12_PrFailureKeepsFixedCode ==
    (FixDone /\ Has("pr")) =>
        /\ response.kind = "fixed" /\ response.status = 200
        /\ response.fixed_code = fixed_code
        /\ response.original_code = Text(code)
        /\ response.issues = issues
        /\ response.pr_result.message # "None"
        /\ response.pr_result.success =
               (response.pr_result.message = "PR created successfully")

C12_Witness ==
    /\ FixDone /\ Has("pr") /\ ~response.pr_result.success
    /\ response.pr_result.message = "Failed to create PR"
    /\ Tools(response.fixed_code) = {"isort", "autopep8"}

\* the text of some file differs from what it was when main() started
SomeFileChanged ==
    \E i \in 1..Len(python_files) : content[i] # Text(python_files[i])

\* the first n elements of s
Prefix(s, n) == SubSeq(s, 1, n)

\* main() is inside, or has left, the delivery sequence
InDelivery ==
    /\ mode = "batch" /\ fixed_files # <<>> /\ idx = Len(python_files)
    /\ trace = <<>> /\ pc \in {"deliver", "done", "crashed"}

\* C13: the delivery sequence runs only if some file produced a change;
\* it performs create-branch, stage, commit, push, open-pull-request in
\* that order, each at most once and only after the earlier ones
\* succeeded; a failing step ends the delivery without an exception
\* leaving main()
C13_DeliveryOrderedAndContained ==
    /\ (mode = "batch" /\ (pc = "deliver" \/ delivery # <<>>)) => SomeFileChanged
    /\ delivery = Prefix(GitCommands \o <<"pr">>, Len(delivery))
    /\ InDelivery => pc # "crashed"

Next ==
    \/ Validate
    \/ AnalyzeDetect
    \/ MkTemp
    \/ WriteTemp
    \/ Pylint
    \/ Flake8
    \/ Finally
    \/ AnalyzeRespond
    \/ FixCheck
    \/ FixAI
    \/ FixFormat
    \/ FixRespond
    \/ BatchStart
    \/ NextFile
    \/ BatchLint
    \/ BatchAutoFix
    \/ BatchRelint
    \/ BatchAI
    \/ Summary
    \/ GitStep
    \/ GhPrCreate

Spec == Init /\ [][Next]_vars

====
